---- MODULE Spec2Model ----
(***************************************************************************)
(* Verification model of the Expo / Strapi blog client.                    *)
(*                                                                         *)
(* The parts of the client that are modelled:                              *)
(*   - the paged article list: hooks/useArticles.ts (useInfiniteArticles), *)
(*     data/loaders.ts (getArticles), lib/strapi-api.ts (fetchAPI) and      *)
(*     app/(tabs)/blog.tsx (BlogScreen);                                    *)
(*   - the landing page: components/blocks/block-renderer.tsx              *)
(*     (BlockRenderer) as used by app/(tabs)/index.tsx (HomeScreen);        *)
(*   - the useQuery hooks (useLandingPage, useArticles, useArticleBySlug)   *)
(*     with fetchAPI's outcomes and the three screens' views (SpecApp);     *)
(*   - several consumers of useInfiniteArticles(tag) (SpecShare);           *)
(*   - pull to refresh on BlogScreen (SpecRefresh, SpecRefreshFair);       *)
(*   - a backend that answers without meta.pagination (SpecBare);          *)
(*   - lib/utils.ts getStrapiMedia on its own (SpecMedia);                 *)
(*   - the Faqs, Hero and ContentWithImage blocks' presses (SpecBlocks);   *)
(*   - data/loaders.ts getArticles(params) on its own (SpecLoader).        *)
(*                                                                         *)
(* useInfiniteQuery is a library call; the model gives it the behaviour of *)
(* TanStack Query v5: one cache entry per queryKey, at most one live fetch *)
(* per entry, fetchNextPage asking for getNextPageParam(last page), a       *)
(* fetch that goes on after its observer unmounted, and `retry` failed      *)
(* attempts repeated before the error is stored.  Within staleTime (five   *)
(* minutes, app/_layout.tsx) an entry that holds data is not refetched     *)
(* when an observer mounts on it; the model stays inside that window.      *)
(***************************************************************************)
EXTENDS Integers, Sequences, FiniteSets, Bags, TLC

VARIABLES
    tag,             \* BlogScreen: the tag handed to useInfiniteArticles(tag)
    cache,           \* QueryClient: queryKey ["articles","infinite",tag] -> query state
    net,             \* bag of HTTP requests in flight (fetchAPI awaiting fetch())
    restartPending,  \* history: the filter changed and no request was issued under it yet
    lateArrival,     \* history: a page arrived for a filter that is no longer shown
    blocks,          \* HomeScreen: the blocks handed to BlockRenderer
    rendered,        \* HomeScreen: what BlockRenderer returned
    queries,         \* QueryClient: queryKey of a useQuery hook -> query state
    qnet,            \* bag of HTTP requests in flight for the useQuery hooks
    slug,            \* ArticleDetailScreen: the route's slug, or NoRoute when closed
    mounted,         \* consumer of useInfiniteArticles -> the tag it observes, or Unmounted
    shown,           \* consumer -> the key and view it rendered last before it unmounted
    refreshing,      \* BlogScreen: the refreshing state handed to RefreshControl
    url,             \* StrapiImage: the src handed to getStrapiMedia
    media,           \* StrapiImage: what getStrapiMedia returned
    openIndex,       \* Faqs: the index of the open item, or null
    opened,          \* the calls of Linking.openURL so far
    params,          \* the argument of a call of getArticles
    findOptions      \* the options getArticles handed to articles.find

vars == <<tag, cache, net, restartPending, lateArrival, blocks, rendered,
          queries, qnet, slug, mounted, shown, refreshing,
          url, media, openIndex, opened, params, findOptions>>

pageVars == <<tag, cache, net, restartPending, lateArrival>>
renderVars == <<blocks, rendered>>
queryVars == <<queries, qnet, slug>>
shareVars == <<mounted, shown>>
unitVars == <<url, media, openIndex, opened, params, findOptions>>
restVars == <<queryVars, shareVars, unitVars>>
appVars == <<restVars, refreshing>>

----------------------------------------------------------------------------
\* Bounds of the model

\* number of articles the backend holds
NumArticles == 25
\* longest block sequence of a landing page
MaxBlocks == 2

----------------------------------------------------------------------------
\* Program constants

PAGE_SIZE == 10
retry == 3
initialPageParam == 1

\* JavaScript undefined / null, for string-valued places
Undefined == "undefined"
\* JavaScript undefined as the value of getNextPageParam (page numbers start at 1)
undefinedParam == 0

----------------------------------------------------------------------------
\* The content backend (Strapi), static during a run

\* the tags a consumer may pass to useInfiniteArticles
Tags == {Undefined, "react", "vue"}

\* articles sorted createdAt:desc; article i was created at time i
ArticlesByCreatedAtDesc == [i \in 1..NumArticles |-> NumArticles + 1 - i]

\* Article.contentTags[].title
contentTagTitles(a) == IF a % 2 = 0 THEN {"React"} ELSE {"Expo"}

\* Strapi's $containsi: case-insensitive substring
containsi(title, t) == title = "React" /\ t = "react"

Min(a, b) == IF a < b THEN a ELSE b

\* a mutation of StrapiFind: pageCount is rounded down
StrapiFindPageCountFloor(query) ==
    LET matches(a) == \/ query.filters = Undefined
                      \/ \E title \in contentTagTitles(a) : containsi(title, query.filters)
        found == SelectSeq(ArticlesByCreatedAtDesc, matches)
        total == Len(found)
        ps    == query.pagination.pageSize
        p     == query.pagination.page
    IN  [data |-> SubSeq(found, (p - 1) * ps + 1, Min(p * ps, total)),
         meta |-> [pagination |-> [page      |-> p,
                                   pageSize  |-> ps,
                                   pageCount |-> total \div ps,
                                   total     |-> total]]]

\* GET /api/articles?sort=..&pagination[page]=..&pagination[pageSize]=..&filters=..
StrapiFind(query) ==
    LET matches(a) == \/ query.filters = Undefined
                      \/ \E title \in contentTagTitles(a) : containsi(title, query.filters)
        found == SelectSeq(ArticlesByCreatedAtDesc, matches)
        total == Len(found)
        ps    == query.pagination.pageSize
        p     == query.pagination.page
    IN  [data |-> SubSeq(found, (p - 1) * ps + 1, Min(p * ps, total)),
         meta |-> [pagination |-> [page      |-> p,
                                   pageSize  |-> ps,
                                   pageCount |-> (total + ps - 1) \div ps,
                                   total     |-> total]]]

----------------------------------------------------------------------------
\* data/loaders.ts

\* a mutation of getArticles: the page asked for is ignored
getArticlesFirstPage(page, t) ==
    [sort       |-> "createdAt:desc",
     pagination |-> [page |-> 1, pageSize |-> PAGE_SIZE],
     filters    |-> IF t \notin {Undefined, ""} THEN t ELSE Undefined]

\* getArticles() called without params
NoParams == [undefined |-> TRUE]

\* a mutation of getArticlesWith: a filter is sent for every tag given
getArticlesWithEveryTag(ps) ==
    LET p == IF ps = NoParams
             THEN [page |-> undefinedParam, pageSize |-> undefinedParam, tag |-> Undefined]
             ELSE ps
    IN  [sort       |-> "createdAt:desc",
         pagination |-> [page     |-> IF p.page = undefinedParam THEN 1 ELSE p.page,
                         pageSize |-> IF p.pageSize = undefinedParam
                                      THEN PAGE_SIZE ELSE p.pageSize],
         filters    |-> p.tag]

\* the options getArticles(params) hands to articles.find:
\* const { page = 1, pageSize = PAGE_SIZE, tag } = params || {};
\* filters = tag ? {contentTags: {title: {$containsi: tag}}} : undefined
getArticlesWith(ps) ==
    LET p == IF ps = NoParams
             THEN [page |-> undefinedParam, pageSize |-> undefinedParam, tag |-> Undefined]
             ELSE ps
    IN  [sort       |-> "createdAt:desc",
         pagination |-> [page     |-> IF p.page = undefinedParam THEN 1 ELSE p.page,
                         pageSize |-> IF p.pageSize = undefinedParam
                                      THEN PAGE_SIZE ELSE p.pageSize],
         filters    |-> IF p.tag \notin {Undefined, ""} THEN p.tag ELSE Undefined]

\* the query getArticles({page, tag}) hands to articles.find
getArticles(page, t) ==
    getArticlesWith([page |-> page, pageSize |-> undefinedParam, tag |-> t])

----------------------------------------------------------------------------
\* hooks/useArticles.ts: useInfiniteArticles

\* a mutation of getNextPageParam: the last page still reports a next page
getNextPageParamInclusive(lastPage) ==
    LET page == lastPage.meta.pagination.page
        pageCount == lastPage.meta.pagination.pageCount
    IN  IF page <= pageCount THEN page + 1 ELSE undefinedParam

\* a mutation of getNextPageParam: the cursor skips a page
getNextPageParamSkip(lastPage) ==
    LET page == lastPage.meta.pagination.page
        pageCount == lastPage.meta.pagination.pageCount
    IN  IF page < pageCount THEN page + 2 ELSE undefinedParam

\* StrapiMeta.pagination is optional: a response may come without it
NoPagination == [undefined |-> TRUE]

\* a mutation of getNextPageParam: without pagination a full page is taken to
\* have a successor
getNextPageParamGuessing(lastPage) ==
    IF lastPage.meta.pagination = NoPagination
    THEN IF Len(lastPage.data) = PAGE_SIZE THEN 2 ELSE undefinedParam
    ELSE IF lastPage.meta.pagination.page < lastPage.meta.pagination.pageCount
    THEN lastPage.meta.pagination.page + 1
    ELSE undefinedParam

\* getNextPageParam: lastPage.meta.pagination || { page: 1, pageCount: 1 }
getNextPageParam(lastPage) ==
    LET pagination == IF lastPage.meta.pagination = NoPagination
                      THEN [page |-> 1, pageCount |-> 1]
                      ELSE lastPage.meta.pagination
        page == pagination.page
        pageCount == pagination.pageCount
    IN  IF page < pageCount THEN page + 1 ELSE undefinedParam

Last(s) == s[Len(s)]

\* a query that was never fetched
EmptyQuery ==
    [pages        |-> <<>>,
     status       |-> "pending",
     fetchStatus  |-> "idle",
     direction    |-> "none",
     failureCount |-> 0,
     error        |-> "null"]

\* what the hook returns for a query state q
hasNextPage(q) == q.pages # <<>> /\ getNextPageParam(Last(q.pages)) # undefinedParam
isFetchingNextPage(q) == q.fetchStatus = "fetching" /\ q.direction = "forward"
isLoading(q) == q.status = "pending" /\ q.fetchStatus = "fetching"

\* an HTTP request of the live fetch of key t
Request(t, page, direction, attempt) ==
    [key |-> t, query |-> getArticles(page, t), direction |-> direction,
     attempt |-> attempt, live |-> TRUE]

\* the request a cancelled fetch leaves behind: fetchAPI takes no abort signal,
\* so the request stays in flight and its result is dropped on arrival
CancelLive(n, t) ==
    LET lives == {r \in BagToSet(n) : r.key = t /\ r.live}
    IN  IF lives = {} THEN n
        ELSE LET r == CHOOSE r \in lives : TRUE
             IN  (n (-) SetToBag({r})) (+) SetToBag({[r EXCEPT !.live = FALSE]})

\* history of the filter: no request was issued under the present filter since
\* it changed while a sequence was in progress
InProgress(q) == q.pages # <<>> \/ q.fetchStatus = "fetching"

IssuedFor(t, n1, n2) == \E r \in BagToSet(n2) : r.key = t /\ CopiesIn(r, n2) > CopiesIn(r, n1)

----------------------------------------------------------------------------
\* The useQuery hooks: useLandingPage, useArticles, useArticleBySlug

\* ArticleDetailScreen is not on the navigation stack
NoRoute == "no-route"

\* Article.slug; uniqueness is assumed by the client, not enforced
slugOf(a) ==
    IF a = NumArticles THEN "latest-post"
    ELSE IF a = 1 THEN "first-post"
    ELSE "other-post"

\* the slugs a route may carry; "no-such-post" matches no article
Slugs == {"latest-post", "no-such-post", ""}

\* queryKey ["landing-page"], ["articles", params], ["article", slug]
LandingKey == <<"landing-page">>
ArticlesKey == <<"articles", Undefined>>
ArticleKey(s) == <<"article", s>>

QueryKeys == {LandingKey, ArticlesKey} \cup {ArticleKey(s) : s \in Slugs}

\* data is undefined
NoData == [undefined |-> TRUE]
NoError == [null |-> TRUE]

\* a useQuery query that was never fetched
EmptySimpleQuery ==
    [data         |-> NoData,
     status       |-> "pending",
     fetchStatus  |-> "idle",
     failureCount |-> 0,
     error        |-> NoError]

\* the new variables of a run that uses no useQuery hook
\* components other than BlogScreen that call useInfiniteArticles(tag)
Consumers == {"c1", "c2"}
Unmounted == "unmounted"
NoView == [key |-> Unmounted, view |-> [view |-> "none"]]

NoConsumers ==
    /\ mounted = [c \in Consumers |-> Unmounted]
    /\ shown = [c \in Consumers |-> NoView]

\* no component function under study has been called yet
nullValue == <<"null">>
NotCalled == <<"not-called">>

\* getArticles has not been called
NoCall == [called |-> FALSE]

\* Faqs.openIndex: number | null
nullIndex == <<>>
Index(i) == <<i>>

UnitsIdle ==
    /\ url = nullValue
    /\ media = NotCalled
    /\ openIndex = nullIndex
    /\ opened = <<>>
    /\ params = NoCall
    /\ findOptions = NoCall

AppIdle ==
    /\ queries = [k \in QueryKeys |-> EmptySimpleQuery]
    /\ qnet = EmptyBag
    /\ slug = NoRoute
    /\ NoConsumers
    /\ UnitsIdle
    /\ refreshing = FALSE

----------------------------------------------------------------------------
\* components/blocks/block-renderer.tsx

\* the kinds BlockRenderer has a case for
RegisteredComponents ==
    {"blocks.hero", "blocks.section-heading", "blocks.card-grid",
     "blocks.content-with-image", "blocks.markdown", "blocks.faqs"}

\* the __component values the backend may send
BlockTags == RegisteredComponents \cup {"blocks.unknown-type"}

\* a block, as far as BlockRenderer reads it
\* the ids of a page's blocks; two blocks may share one
BlockIds == {1, 2}

Blocks == [__component : BlockTags, id : BlockIds]

BlockSeqs == UNION {[1..n -> Blocks] : n \in 0..MaxBlocks}

\* JSX null
Null == [type |-> "null"]

Element(type, block) == [type |-> type, props |-> block]

\* renderBlock: the switch on block.__component
renderBlock(block) ==
    CASE block.__component = "blocks.hero" -> Element("Hero", block)
      [] block.__component = "blocks.section-heading" -> Element("SectionHeading", block)
      [] block.__component = "blocks.card-grid" -> Element("CardGrid", block)
      [] block.__component = "blocks.content-with-image" -> Element("ContentWithImage", block)
      [] block.__component = "blocks.markdown" -> Element("MarkdownText", block)
      [] block.__component = "blocks.faqs" -> Element("Faqs", block)
      [] OTHER -> Null

\* a mutation of Unit: the key is made of the tag and the id only
UnitKeyedById(block, index) ==
    [type  |-> "View",
     key   |-> <<block.__component, block.id>>,
     child |-> renderBlock(block)]

\* <View key={`${block.__component}-${block.id}-${index}`}>{renderBlock(block)}</View>
Unit(block, index) ==
    [type  |-> "View",
     key   |-> <<block.__component, block.id, index>>,
     child |-> renderBlock(block)]

\* a mutation of BlockRenderer: the units come out in reverse order
BlockRendererReversed(bs) ==
    [i \in 1..Len(bs) |-> Unit(bs[Len(bs) + 1 - i], Len(bs) - i)]

\* a mutation of BlockRenderer: rendering stops at the first block without a case
BlockRendererAborting(bs) ==
    LET bad == {i \in 1..Len(bs) : bs[i].__component \notin RegisteredComponents}
        stop == IF bad = {} THEN Len(bs)
                ELSE (CHOOSE i \in bad : \A j \in bad : i <= j) - 1
    IN  [i \in 1..stop |-> Unit(bs[i], i - 1)]

\* BlockRenderer: blocks.map((block, index) => ...), index counted from 0
BlockRenderer(bs) ==
    [i \in 1..Len(bs) |-> Unit(bs[i], i - 1)]

\* HomeScreen while useLandingPage is loading
LoadingView == [view |-> "loading", units |-> <<>>]

\* HomeScreen with data: <ScrollView><BlockRenderer blocks={blocks} /></ScrollView>
HomeScreen(bs) == [view |-> "blocks", units |-> BlockRenderer(bs)]

\* useLandingPage delivers a landing page and HomeScreen renders its blocks
LandingPageLoaded(bs) ==
    /\ blocks' = bs
    /\ rendered' = HomeScreen(bs)
    /\ UNCHANGED <<pageVars, appVars>>

InitRender ==
    /\ blocks = <<>>
    /\ rendered = LoadingView
    /\ tag = Undefined
    /\ cache = [t \in Tags |-> EmptyQuery]
    /\ net = EmptyBag
    /\ restartPending = FALSE
    /\ lateArrival = FALSE
    /\ AppIdle

NextRender == \E bs \in BlockSeqs : LandingPageLoaded(bs)

SpecRender == InitRender /\ [][NextRender]_vars

----------------------------------------------------------------------------
\* The paged article list

\* BlogScreen: articles = data?.pages.flatMap((page) => page.data) || []
RECURSIVE flatMapData(_)
flatMapData(pages) ==
    IF pages = <<>> THEN <<>>
    ELSE pages[1].data \o flatMapData(Tail(pages))

\* a mutation of articles: the page fetched last comes first
articlesLastPageFirst(q) ==
    IF q.pages = <<>> THEN <<>>
    ELSE Last(q.pages).data \o flatMapData(SubSeq(q.pages, 1, Len(q.pages) - 1))

\* BlogScreen: data?.pages.flatMap((page) => page.data) || []
articles(q) == flatMapData(q.pages)

\* BlogScreen returns the loading view or the error view before the FlatList
ListShown(q) == ~isLoading(q) /\ q.error = "null"

\* Query.fetch with no data yet: the first page
FetchFirstPage(t) ==
    /\ cache' = [cache EXCEPT ![t] = [@ EXCEPT !.status = "pending",
                                               !.error = "null",
                                               !.fetchStatus = "fetching",
                                               !.direction = "none",
                                               !.failureCount = 0]]
    /\ net' = net (+) SetToBag({Request(t, initialPageParam, "none", 0)})

\* a mutation of fetchNextPage's caller: the guard on isFetchingNextPage is dropped
onEndReachedUnguarded(q) == hasNextPage(q)

\* BlogScreen.onEndReached: if (hasNextPage && !isFetchingNextPage)
onEndReachedGuard(q) == hasNextPage(q) /\ ~isFetchingNextPage(q)

\* fetchNextPage(): cancels a fetch in progress (cancelRefetch), then asks for
\* the page getNextPageParam names
fetchNextPage(t) ==
    LET q == cache[t]
        param == getNextPageParam(Last(q.pages))
    IN  /\ cache' = [cache EXCEPT ![t] = [@ EXCEPT !.fetchStatus = "fetching",
                                                   !.direction = "forward",
                                                   !.failureCount = 0]]
        /\ net' = CancelLive(net, t) (+) SetToBag({Request(t, param, "forward", 0)})

\* the list reaches its end
OnEndReached ==
    /\ ListShown(cache[tag])
    /\ IF onEndReachedGuard(cache[tag])
       THEN /\ fetchNextPage(tag)
            /\ restartPending' = FALSE
       ELSE UNCHANGED <<cache, net, restartPending>>
    /\ UNCHANGED <<tag, lateArrival, renderVars, appVars>>

\* a mutation of Store: the page goes to the entry of the filter now shown
StoreUnderCurrentTag(r, response) ==
    cache' = [cache EXCEPT ![tag] = [@ EXCEPT !.pages = Append(@, response),
                                              !.status = "success",
                                              !.error = "null",
                                              !.fetchStatus = "idle",
                                              !.direction = "none",
                                              !.failureCount = 0]]

\* the fetch of r.key resolved with response: the page is appended to its entry
Store(r, response) ==
    cache' = [cache EXCEPT ![r.key] = [@ EXCEPT !.pages = Append(@, response),
                                                !.status = "success",
                                                !.error = "null",
                                                !.fetchStatus = "idle",
                                                !.direction = "none",
                                                !.failureCount = 0]]

\* a request of the fetch that refetches the pages of key t: fetched holds the
\* pages this fetch has got so far
RefetchRequest(t, page, attempt, fetched) ==
    [key |-> t, query |-> getArticles(page, t), direction |-> "refetch",
     attempt |-> attempt, live |-> TRUE, fetched |-> fetched]

\* a mutation of StoreRefetched: the refetched pages are added to the old ones
StoreRefetchedAppending(r, fetched) ==
    cache' = [cache EXCEPT ![r.key] = [@ EXCEPT !.pages = @ \o fetched,
                                                !.status = "success",
                                                !.error = "null",
                                                !.fetchStatus = "idle",
                                                !.direction = "none",
                                                !.failureCount = 0]]

\* the refetch of r.key resolved: the refetched pages replace the pages held
StoreRefetched(r, fetched) ==
    cache' = [cache EXCEPT ![r.key] = [@ EXCEPT !.pages = fetched,
                                                !.status = "success",
                                                !.error = "null",
                                                !.fetchStatus = "idle",
                                                !.direction = "none",
                                                !.failureCount = 0]]

\* a page of a refetch arrived: the fetch asks for the next page while it has
\* fewer pages than the entry holds and getNextPageParam names one
RefetchPage(r, response) ==
    LET fetched == Append(r.fetched, response)
        param == getNextPageParam(response)
    IN  IF Len(fetched) < Len(cache[r.key].pages) /\ param # undefinedParam
        THEN /\ net' = (net (-) SetToBag({r}))
                            (+) SetToBag({RefetchRequest(r.key, param, r.attempt, fetched)})
             /\ UNCHANGED cache
        ELSE /\ net' = net (-) SetToBag({r})
             /\ StoreRefetched(r, fetched)

\* the request the retryer issues after r failed: a refetch starts over
Retry(r) ==
    IF r.direction = "refetch"
    THEN RefetchRequest(r.key, initialPageParam, r.attempt + 1, <<>>)
    ELSE [r EXCEPT !.attempt = @ + 1]

\* fetchAPI: response.ok, the JSON body is returned
Respond(r) ==
    /\ BagIn(r, net)
    /\ IF r.live /\ r.direction = "refetch"
       THEN RefetchPage(r, StrapiFind(r.query))
       ELSE /\ net' = net (-) SetToBag({r})
            /\ IF r.live THEN Store(r, StrapiFind(r.query)) ELSE UNCHANGED cache
    /\ lateArrival' = (lateArrival \/ (r.live /\ r.key # tag))
    /\ UNCHANGED <<tag, restartPending, renderVars, appVars>>

\* a mutation of StoreError: the failed page is recorded as an empty page
StoreErrorAdvancing(r) ==
    cache' = [cache EXCEPT ![r.key] =
                 [@ EXCEPT !.pages = Append(@, [StrapiFind(r.query) EXCEPT !.data = <<>>]),
                           !.status = "error",
                           !.error = "Error",
                           !.fetchStatus = "idle",
                           !.direction = "none",
                           !.failureCount = r.attempt + 1]]

\* a mutation of StoreError: the pages held are dropped with the failure
StoreErrorClearing(r) ==
    cache' = [cache EXCEPT ![r.key] = [@ EXCEPT !.pages = <<>>,
                                                !.status = "error",
                                                !.error = "Error",
                                                !.fetchStatus = "idle",
                                                !.direction = "none",
                                                !.failureCount = r.attempt + 1]]

\* the fetch of r.key rejected for good: the error is stored, the pages are kept
StoreError(r) ==
    cache' = [cache EXCEPT ![r.key] = [@ EXCEPT !.status = "error",
                                                !.error = "Error",
                                                !.fetchStatus = "idle",
                                                !.direction = "none",
                                                !.failureCount = r.attempt + 1]]

\* fetchAPI throws (fetch rejects, or !response.ok); the retryer repeats the
\* request while failureCount < retry, then the error is stored
Fail(r) ==
    /\ BagIn(r, net)
    /\ IF ~r.live
       THEN /\ net' = net (-) SetToBag({r})
            /\ UNCHANGED <<cache, restartPending>>
       ELSE IF r.attempt < retry
       THEN /\ net' = (net (-) SetToBag({r})) (+) SetToBag({Retry(r)})
            /\ cache' = [cache EXCEPT ![r.key] = [@ EXCEPT !.failureCount = r.attempt + 1]]
            /\ restartPending' = IF r.key = tag THEN FALSE ELSE restartPending
       ELSE /\ net' = net (-) SetToBag({r})
            /\ StoreError(r)
            /\ UNCHANGED restartPending
    /\ UNCHANGED <<tag, lateArrival, renderVars, appVars>>

\* a mutation of SetTag: the cursor of the old filter is carried to the new one
SetTagCarryCursor(t) ==
    /\ t \in Tags \ {tag}
    /\ tag' = t
    /\ IF cache[t].fetchStatus = "idle" /\ cache[t].pages = <<>>
       THEN /\ cache' = [cache EXCEPT ![t] = [@ EXCEPT !.status = "pending",
                                                       !.error = "null",
                                                       !.fetchStatus = "fetching"]]
            /\ net' = net (+) SetToBag({Request(t, Len(cache[tag].pages) + 1, "none", 0)})
       ELSE UNCHANGED <<cache, net>>
    /\ restartPending' = (InProgress(cache[tag]) /\ ~IssuedFor(t, net, net'))
    /\ UNCHANGED <<lateArrival, renderVars, appVars>>

\* the consumer renders with another tag: useInfiniteArticles(t) observes the
\* entry of key t and fetches its first page when the entry holds no data
SetTag(t) ==
    /\ t \in Tags \ {tag}
    /\ tag' = t
    /\ IF cache[t].fetchStatus = "idle" /\ cache[t].pages = <<>>
       THEN FetchFirstPage(t)
       ELSE UNCHANGED <<cache, net>>
    /\ restartPending' = (InProgress(cache[tag]) /\ ~IssuedFor(t, net, net'))
    /\ UNCHANGED <<lateArrival, renderVars, appVars>>

\* BlogScreen mounts: useInfiniteArticles() with no tag fetches the first page
Init ==
    /\ tag = Undefined
    /\ cache = [t \in Tags |-> IF t = Undefined
                               THEN [EmptyQuery EXCEPT !.fetchStatus = "fetching"]
                               ELSE EmptyQuery]
    /\ net = SetToBag({Request(Undefined, initialPageParam, "none", 0)})
    /\ restartPending = FALSE
    /\ lateArrival = FALSE
    /\ blocks = <<>>
    /\ rendered = LoadingView
    /\ AppIdle

Next ==
    \/ OnEndReached
    \/ \E r \in BagToSet(net) : Respond(r)
    \/ \E r \in BagToSet(net) : Fail(r)
    \/ \E t \in Tags : SetTag(t)

Spec == Init /\ [][Next]_vars

----------------------------------------------------------------------------
\* A backend whose responses may lack meta.pagination

WithoutPagination(response) == [response EXCEPT !.meta = [pagination |-> NoPagination]]

\* fetchAPI: response.ok, and the JSON body has no meta.pagination
RespondBare(r) ==
    /\ BagIn(r, net)
    /\ net' = net (-) SetToBag({r})
    /\ IF r.live
       THEN Store(r, WithoutPagination(StrapiFind(r.query)))
       ELSE UNCHANGED cache
    /\ lateArrival' = (lateArrival \/ (r.live /\ r.key # tag))
    /\ UNCHANGED <<tag, restartPending, renderVars, appVars>>

NextBare ==
    \/ OnEndReached
    \/ \E r \in BagToSet(net) : Respond(r)
    \/ \E r \in BagToSet(net) : RespondBare(r)
    \/ \E r \in BagToSet(net) : Fail(r)
    \/ \E t \in Tags : SetTag(t)

SpecBare == Init /\ [][NextBare]_vars

----------------------------------------------------------------------------
\* Pull to refresh on BlogScreen

MaxInFlight == 3

\* the promise of refetch() is pending: it settles when the refetch stored
\* its pages, stored its error, or was cancelled
isRefetching == \E r \in BagToSet(net) : r.key = tag /\ r.live /\ r.direction = "refetch"

\* refetch(): cancels a fetch in progress (cancelRefetch), then fetches the
\* pages held again, starting with the first
refetch(t) ==
    /\ cache' = [cache EXCEPT ![t] = [@ EXCEPT !.fetchStatus = "fetching",
                                               !.direction = "none",
                                               !.failureCount = 0]]
    /\ net' = CancelLive(net, t) (+) SetToBag({RefetchRequest(t, initialPageParam, 0, <<>>)})

\* BlogScreen.onRefresh: the RefreshControl of the FlatList is pulled
OnRefresh ==
    /\ ListShown(cache[tag])
    /\ ~refreshing
    /\ BagCardinality(net) < MaxInFlight
    /\ refreshing' = TRUE
    /\ refetch(tag)
    /\ restartPending' = FALSE
    /\ UNCHANGED <<tag, lateArrival, renderVars, restVars>>

\* a mutation of RefreshSettled: the promise of refetch() rejects when the
\* refetch failed, and onRefresh ends there
RefreshSettledUnlessFailed ==
    /\ refreshing
    /\ ~isRefetching
    /\ cache[tag].error = "null"
    /\ refreshing' = FALSE
    /\ UNCHANGED <<pageVars, renderVars, restVars>>

\* onRefresh after `await refetch()`: the promise settled (refetch() resolves
\* with the result also when the fetch failed or was cancelled), so
\* setRefreshing(false) runs
RefreshSettled ==
    /\ refreshing
    /\ ~isRefetching
    /\ refreshing' = FALSE
    /\ UNCHANGED <<pageVars, renderVars, restVars>>

NextRefresh ==
    \/ OnEndReached
    \/ OnRefresh
    \/ RefreshSettled
    \/ \E r \in BagToSet(net) : Respond(r)
    \/ \E r \in BagToSet(net) : Fail(r)

SpecRefresh == Init /\ [][NextRefresh]_vars

\* the continuation of an awaited promise that settled is always run
SpecRefreshFair == SpecRefresh /\ WF_vars(RefreshSettled)

----------------------------------------------------------------------------
\* lib/strapi-api.ts and data/loaders.ts for the useQuery hooks

Error(message) == [message |-> message]

\* what fetch() may end in: a rejection, a success status, a non-success status
NetworkResults ==
    {[rejected |-> TRUE,  ok |-> FALSE, status |-> 0,   statusText |-> "Network request failed"],
     [rejected |-> FALSE, ok |-> TRUE,  status |-> 200, statusText |-> "OK"],
     [rejected |-> FALSE, ok |-> FALSE, status |-> 500, statusText |-> "Internal Server Error"]}

Throw(e) == [threw |-> TRUE, error |-> e, value |-> NoData]
Return(v) == [threw |-> FALSE, error |-> NoError, value |-> v]

\* a mutation of fetchAPI: the body is decoded whatever the status
fetchAPIUnchecked(result, body) ==
    IF result.rejected THEN Throw(Error(<<result.statusText>>))
    ELSE Return(body)

\* fetchAPI: await fetch(); if (!response.ok) throw new Error(`API error: ...`);
\* return response.json()
fetchAPI(result, body) ==
    IF result.rejected THEN Throw(Error(<<result.statusText>>))
    ELSE IF ~result.ok
    THEN Throw(Error(<<"API error: ", result.status, " ", result.statusText>>))
    ELSE Return(body)

\* the landing page the backend holds
LandingPageResponse ==
    [data |-> [blocks |-> <<[__component |-> "blocks.hero", id |-> 1],
                            [__component |-> "blocks.unknown-type", id |-> 2]>>]]

\* GET /api/articles?filters[slug][$eq]=s
StrapiFindBySlug(s) ==
    [data |-> SelectSeq(ArticlesByCreatedAtDesc, LAMBDA a : slugOf(a) = s)]

\* getLandingPageData
getLandingPageData(result) == fetchAPI(result, LandingPageResponse)

\* useArticles(): getArticles(undefined)
getArticlesList(result) == fetchAPI(result, StrapiFind(getArticles(undefinedParam, Undefined)))

\* a mutation of getArticleBySlug: an empty result is thrown as an error
getArticleBySlugThrowing(s, result) ==
    LET out == fetchAPI(result, StrapiFindBySlug(s))
    IN  IF ~out.threw /\ out.value.data = <<>>
        THEN Throw(Error(<<"Article not found">>))
        ELSE out

\* getArticleBySlug
getArticleBySlug(s, result) == fetchAPI(result, StrapiFindBySlug(s))

\* the queryFn of the hook that owns key k
queryFn(k, result) ==
    IF k = LandingKey THEN getLandingPageData(result)
    ELSE IF k = ArticlesKey THEN getArticlesList(result)
    ELSE getArticleBySlug(k[2], result)

\* a mutation of enabled: the query is enabled whatever the slug
enabledAlways(s) == TRUE

\* useArticleBySlug: enabled: !!slug
enabled(s) == s # ""

----------------------------------------------------------------------------
\* The useQuery hooks and their screens

\* a mutation of retryLimit: twice as many retries
retryLimitNone == retry + retry

\* queryClient defaultOptions.queries.retry
retryLimit == retry

\* Query.fetch of a useQuery hook
StartQuery(k) ==
    /\ queries' = [queries EXCEPT ![k] =
                      [@ EXCEPT !.status = IF @ = "success" THEN @ ELSE "pending",
                                !.error = IF queries[k].data = NoData THEN NoError ELSE @,
                                !.fetchStatus = "fetching",
                                !.failureCount = 0]]
    /\ qnet' = qnet (+) SetToBag({[key |-> k, attempt |-> 0]})

MustFetchOnMount(q) == q.data = NoData /\ q.fetchStatus = "idle"

\* a component calls useArticles()
UseArticles ==
    /\ MustFetchOnMount(queries[ArticlesKey])
    /\ StartQuery(ArticlesKey)
    /\ UNCHANGED <<slug, shareVars, pageVars, renderVars, unitVars, refreshing>>

\* router.push(`/article/${slug}`): ArticleDetailScreen mounts with the slug
OpenArticle(s) ==
    /\ slug = NoRoute
    /\ slug' = s
    /\ IF enabled(s) /\ MustFetchOnMount(queries[ArticleKey(s)])
       THEN StartQuery(ArticleKey(s))
       ELSE UNCHANGED <<queries, qnet>>
    /\ UNCHANGED <<shareVars, pageVars, renderVars, unitVars, refreshing>>

\* back: ArticleDetailScreen unmounts; a fetch in flight goes on
CloseArticle ==
    /\ slug # NoRoute
    /\ slug' = NoRoute
    /\ UNCHANGED <<queries, qnet, shareVars, pageVars, renderVars, unitVars, refreshing>>

\* the request r of a useQuery hook settles with a network result: the data is
\* stored, or the request is repeated, or the error is stored
Settle(r, result) ==
    LET out == queryFn(r.key, result)
    IN  /\ BagIn(r, qnet)
        /\ IF ~out.threw
           THEN /\ qnet' = qnet (-) SetToBag({r})
                /\ queries' = [queries EXCEPT ![r.key] =
                                  [@ EXCEPT !.data = out.value,
                                            !.status = "success",
                                            !.error = NoError,
                                            !.fetchStatus = "idle",
                                            !.failureCount = 0]]
           ELSE IF r.attempt < retryLimit
           THEN /\ qnet' = (qnet (-) SetToBag({r}))
                               (+) SetToBag({[r EXCEPT !.attempt = @ + 1]})
                /\ queries' = [queries EXCEPT ![r.key] =
                                  [@ EXCEPT !.failureCount = r.attempt + 1]]
           ELSE /\ qnet' = qnet (-) SetToBag({r})
                /\ queries' = [queries EXCEPT ![r.key] =
                                  [@ EXCEPT !.status = "error",
                                            !.error = out.error,
                                            !.fetchStatus = "idle",
                                            !.failureCount = r.attempt + 1]]
        /\ UNCHANGED <<slug, shareVars, pageVars, renderVars, unitVars, refreshing>>

truthy(message) == message # <<>>

\* a mutation of ArticleDetailScreen: the error view shows one fixed message
ArticleDetailScreenFixedMessage(q) ==
    IF isLoading(q) THEN [view |-> "loading"]
    ELSE IF q.error # NoError \/ q.data = NoData \/ q.data.data = <<>>
    THEN [view |-> "error", title |-> "Error", message |-> <<"Article not found">>]
    ELSE [view |-> "article", article |-> q.data.data[1]]

\* ArticleDetailScreen: the loading view, the error view, or the article
ArticleDetailScreen(q) ==
    IF isLoading(q) THEN [view |-> "loading"]
    ELSE IF q.error # NoError \/ q.data = NoData \/ q.data.data = <<>>
    THEN [view    |-> "error",
          title   |-> "Error",
          message |-> IF q.error # NoError /\ truthy(q.error.message)
                      THEN q.error.message
                      ELSE <<"Article not found">>]
    ELSE [view |-> "article", article |-> q.data.data[1]]

\* a mutation of HomeScreenOf: the error branch is missing and the loading view
\* stays while there is no data
HomeScreenOfWithoutErrorView(q) ==
    IF q.data = NoData THEN LoadingView
    ELSE HomeScreen(q.data.data.blocks)

\* HomeScreen: the loading view, the error view, or the blocks
HomeScreenOf(q) ==
    IF isLoading(q) THEN LoadingView
    ELSE IF q.error # NoError
    THEN [view    |-> "error",
          title   |-> "Error",
          message |-> IF truthy(q.error.message)
                      THEN q.error.message
                      ELSE <<"Failed to load landing page">>]
    ELSE HomeScreen(IF q.data = NoData THEN <<>> ELSE q.data.data.blocks)

\* the query ArticleDetailScreen reads: useArticleBySlug(slug || "")
DetailQuery == queries[ArticleKey(slug)]

\* the app starts on the tabs: HomeScreen fetches the landing page and
\* BlogScreen the first page of articles
InitApp ==
    /\ tag = Undefined
    /\ cache = [t \in Tags |-> IF t = Undefined
                               THEN [EmptyQuery EXCEPT !.fetchStatus = "fetching"]
                               ELSE EmptyQuery]
    /\ net = SetToBag({Request(Undefined, initialPageParam, "none", 0)})
    /\ restartPending = FALSE
    /\ lateArrival = FALSE
    /\ blocks = <<>>
    /\ rendered = LoadingView
    /\ queries = [k \in QueryKeys |->
                     IF k = LandingKey
                     THEN [EmptySimpleQuery EXCEPT !.fetchStatus = "fetching"]
                     ELSE EmptySimpleQuery]
    /\ qnet = SetToBag({[key |-> LandingKey, attempt |-> 0]})
    /\ slug = NoRoute
    /\ NoConsumers
    /\ UnitsIdle
    /\ refreshing = FALSE

NextApp ==
    \/ OnEndReached
    \/ \E r \in BagToSet(net) : Respond(r)
    \/ \E r \in BagToSet(net) : Fail(r)
    \/ UseArticles
    \/ \E s \in Slugs : OpenArticle(s)
    \/ CloseArticle
    \/ \E r \in BagToSet(qnet), result \in NetworkResults : Settle(r, result)

SpecApp == InitApp /\ [][NextApp]_vars

----------------------------------------------------------------------------
\* Several consumers of useInfiniteArticles(tag)

\* the tags the consumers ask for
SharedTags == {Undefined, "react"}

\* what a consumer of the hook renders for a query state q (BlogScreen's three
\* returns: loading view, error view, list)
BlogScreenView(q, isRefreshing) ==
    IF isLoading(q) /\ ~isRefreshing THEN [view |-> "loading"]
    ELSE IF q.error # "null" THEN [view |-> "error"]
    ELSE [view |-> "list", articles |-> articles(q), footer |-> isFetchingNextPage(q)]

Observers(t) == {c \in Consumers : mounted[c] = t}

\* the view of consumer c: read from the entry of its key while it is mounted
View(c) ==
    IF mounted[c] = Unmounted THEN shown[c].view
    ELSE BlogScreenView(cache[mounted[c]], FALSE)

\* a mutation of fetchOnMount: every mounting observer starts a fetch of its own
fetchOnMountAlways(q) == q.pages = <<>>

\* an observer that mounts fetches when the entry holds no data and no fetch
\* is going on; it joins a fetch that is going on
fetchOnMount(q) == q.pages = <<>> /\ q.fetchStatus = "idle"

\* consumer c mounts and calls useInfiniteArticles(t)
Mount(c, t) ==
    /\ mounted[c] = Unmounted
    /\ mounted' = [mounted EXCEPT ![c] = t]
    /\ IF fetchOnMount(cache[t])
       THEN FetchFirstPage(t)
       ELSE UNCHANGED <<cache, net>>
    /\ UNCHANGED <<shown, tag, restartPending, lateArrival, renderVars, queryVars, unitVars, refreshing>>

\* a mutation of Unmount: the fetch of the key is cancelled with its last observer
UnmountCancelling(c) ==
    /\ mounted[c] # Unmounted
    /\ shown' = [shown EXCEPT ![c] = [key |-> mounted[c], view |-> View(c)]]
    /\ mounted' = [mounted EXCEPT ![c] = Unmounted]
    /\ net' = IF Observers(mounted[c]) = {c} THEN CancelLive(net, mounted[c]) ELSE net
    /\ UNCHANGED <<cache, tag, restartPending, lateArrival, renderVars, queryVars, unitVars, refreshing>>

\* consumer c unmounts: its observer leaves the entry; fetchAPI was given no
\* abort signal, so a fetch in flight goes on
Unmount(c) ==
    /\ mounted[c] # Unmounted
    /\ shown' = [shown EXCEPT ![c] = [key |-> mounted[c], view |-> View(c)]]
    /\ mounted' = [mounted EXCEPT ![c] = Unmounted]
    /\ UNCHANGED <<cache, net, tag, restartPending, lateArrival, renderVars, queryVars, unitVars, refreshing>>

\* the list of consumer c reaches its end
EndReached(c) ==
    /\ mounted[c] # Unmounted
    /\ ListShown(cache[mounted[c]])
    /\ onEndReachedGuard(cache[mounted[c]])
    /\ fetchNextPage(mounted[c])
    /\ UNCHANGED <<shareVars, tag, restartPending, lateArrival, renderVars, queryVars, unitVars, refreshing>>

\* no component is mounted yet
InitShare ==
    /\ tag = Undefined
    /\ cache = [t \in Tags |-> EmptyQuery]
    /\ net = EmptyBag
    /\ restartPending = FALSE
    /\ lateArrival = FALSE
    /\ blocks = <<>>
    /\ rendered = LoadingView
    /\ AppIdle

NextShare ==
    \/ \E c \in Consumers, t \in SharedTags : Mount(c, t)
    \/ \E c \in Consumers : Unmount(c)
    \/ \E c \in Consumers : EndReached(c)
    \/ \E r \in BagToSet(net) : Respond(r)
    \/ \E r \in BagToSet(net) : Fail(r)

SpecShare == InitShare /\ [][NextShare]_vars

----------------------------------------------------------------------------
\* lib/utils.ts: getStrapiMedia, as called by StrapiImage
\* A string is the sequence of its characters.

MaxUrlLen == 5

\* the characters the urls under study are made of
UrlChars == {"h", "t", "p", "f", ":", "/"}

\* the values of StrapiImage's src: null, or a string of at most MaxUrlLen characters
Urls == {nullValue} \cup UNION {[1..n -> UrlChars] : n \in 0..MaxUrlLen}

\* EXPO_PUBLIC_STRAPI_URL || "http://localhost:1337"
STRAPI_URL ==
    <<"h", "t", "t", "p", ":", "/", "/", "l", "o", "c", "a", "l", "h", "o", "s", "t",
      ":", "1", "3", "3", "7">>

getStrapiURL == STRAPI_URL

\* String.prototype.startsWith
startsWith(str, prefix) ==
    /\ Len(str) >= Len(prefix)
    /\ SubSeq(str, 1, Len(prefix)) = prefix

\* getStrapiMedia: if (!url) return null; if (url.startsWith("http")) return url;
\* return `${getStrapiURL()}${url}`
getStrapiMedia(u) ==
    IF u = nullValue \/ u = <<>> THEN nullValue
    ELSE IF startsWith(u, <<"h", "t", "t", "p">>) THEN u
    ELSE getStrapiURL \o u

\* StrapiImage renders: const imageUrl = getStrapiMedia(src)
ResolveMedia ==
    /\ media = NotCalled
    /\ media' = getStrapiMedia(url)
    /\ UNCHANGED <<url, openIndex, opened, params, findOptions>>
    /\ UNCHANGED <<pageVars, renderVars, queryVars, shareVars, refreshing>>

\* a StrapiImage is about to render with some src
InitMedia ==
    /\ tag = Undefined
    /\ cache = [t \in Tags |-> EmptyQuery]
    /\ net = EmptyBag
    /\ restartPending = FALSE
    /\ lateArrival = FALSE
    /\ blocks = <<>>
    /\ rendered = LoadingView
    /\ queries = [k \in QueryKeys |-> EmptySimpleQuery]
    /\ qnet = EmptyBag
    /\ slug = NoRoute
    /\ NoConsumers
    /\ refreshing = FALSE
    /\ url \in Urls
    /\ media = NotCalled
    /\ openIndex = nullIndex
    /\ opened = <<>>
    /\ params = NoCall
    /\ findOptions = NoCall

NextMedia == ResolveMedia

SpecMedia == InitMedia /\ [][NextMedia]_vars

----------------------------------------------------------------------------
\* components/blocks: Faqs, Hero, ContentWithImage

\* number of items of the FAQ block
FaqCount == 3

\* number of Linking.openURL calls followed
MaxOpened == 3

FaqIndexes == 0..(FaqCount - 1)

\* a mutation of toggleFAQ: a press closes whichever item is open
toggleFAQClosesAny(open, index) == IF open # nullIndex THEN nullIndex ELSE Index(index)

\* toggleFAQ: setOpenIndex(openIndex === index ? null : index)
toggleFAQ(open, index) == IF open = Index(index) THEN nullIndex ELSE Index(index)

\* the item at index shows its text: openIndex === index
IsOpen(index) == openIndex = Index(index)

\* the header of the FAQ item at index is pressed
ToggleFAQ(index) ==
    /\ openIndex' = toggleFAQ(openIndex, index)
    /\ UNCHANGED <<url, media, opened, params, findOptions>>
    /\ UNCHANGED <<pageVars, renderVars, queryVars, shareVars, refreshing>>

\* TLink: href and isExternal, as the backend may send them
Links == [href : {"", "/blog", "https://strapi.io"}, isExternal : BOOLEAN]

\* Linking.openURL(href)
openURL(href) == opened' = Append(opened, href)

\* Hero.handlePress(link.href, link.isExternal): if (isExternal) openURL(href);
\* a Pressable is rendered for every link
PressHeroLink(link) ==
    /\ Len(opened) < MaxOpened
    /\ IF link.isExternal THEN openURL(link.href) ELSE UNCHANGED opened
    /\ UNCHANGED <<url, media, openIndex, params, findOptions>>
    /\ UNCHANGED <<pageVars, renderVars, queryVars, shareVars, refreshing>>

\* ContentWithImage.handlePress: if (link?.href) { if (link.isExternal)
\* openURL(link.href) }; the Pressable is rendered when link?.href && link.label
PressContentLink(link) ==
    /\ Len(opened) < MaxOpened
    /\ link.href # ""
    /\ IF link.href # "" /\ link.isExternal
       THEN openURL(link.href)
       ELSE UNCHANGED opened
    /\ UNCHANGED <<url, media, openIndex, params, findOptions>>
    /\ UNCHANGED <<pageVars, renderVars, queryVars, shareVars, refreshing>>

\* the landing page shows its blocks; no FAQ item is open
InitBlocks ==
    /\ tag = Undefined
    /\ cache = [t \in Tags |-> EmptyQuery]
    /\ net = EmptyBag
    /\ restartPending = FALSE
    /\ lateArrival = FALSE
    /\ blocks = <<>>
    /\ rendered = LoadingView
    /\ AppIdle

NextBlocks ==
    \/ \E index \in FaqIndexes : ToggleFAQ(index)
    \/ \E link \in Links : PressHeroLink(link)
    \/ \E link \in Links : PressContentLink(link)

SpecBlocks == InitBlocks /\ [][NextBlocks]_vars

----------------------------------------------------------------------------
\* data/loaders.ts: getArticles(params) on its own

\* largest page a caller asks for
MaxPage == 3

\* GetArticlesParams: page?, pageSize?, tag?
Params ==
    {NoParams} \cup [page     : 0..MaxPage,
                     pageSize : {undefinedParam, 5, PAGE_SIZE, 20},
                     tag      : Tags \cup {""}]

\* getArticles(params) reaches articles.find
CallGetArticles ==
    /\ findOptions = NoCall
    /\ findOptions' = getArticlesWith(params)
    /\ UNCHANGED <<url, media, openIndex, opened, params>>
    /\ UNCHANGED <<pageVars, renderVars, queryVars, shareVars, refreshing>>

\* a caller is about to call getArticles with some params
InitLoader ==
    /\ tag = Undefined
    /\ cache = [t \in Tags |-> EmptyQuery]
    /\ net = EmptyBag
    /\ restartPending = FALSE
    /\ lateArrival = FALSE
    /\ blocks = <<>>
    /\ rendered = LoadingView
    /\ queries = [k \in QueryKeys |-> EmptySimpleQuery]
    /\ qnet = EmptyBag
    /\ slug = NoRoute
    /\ NoConsumers
    /\ refreshing = FALSE
    /\ url = nullValue
    /\ media = NotCalled
    /\ openIndex = nullIndex
    /\ opened = <<>>
    /\ params \in Params
    /\ findOptions = NoCall

NextLoader == CallGetArticles

SpecLoader == InitLoader /\ [][NextLoader]_vars

----------------------------------------------------------------------------
\* Properties of the paged article list (checked under Spec)

PageOf(response) == response.meta.pagination.page
PageCountOf(response) == response.meta.pagination.pageCount

Collection(t) ==
    StrapiFind([getArticles(1, t) EXCEPT !.pagination.pageSize = NumArticles + 1]).data

NoDuplicates(s) == \A i, j \in DOMAIN s : i # j => s[i] # s[j]

\* C5: after k successful page fetches of one sequence, the aggregated items
\* are the first k pages of the static collection, in order: no item twice,
\* none skipped.
C5_ConcatenationOfPages ==
    \A t \in Tags :
        LET k == Len(cache[t].pages)
            all == Collection(t)
        IN  /\ articles(cache[t]) = SubSeq(all, 1, Min(k * PAGE_SIZE, Len(all)))
            /\ NoDuplicates(articles(cache[t]))

\* C5 witness: a sequence of three fetched pages holding every article.
C5_Witness ==
    \E t \in Tags :
        /\ Len(cache[t].pages) = 3
        /\ Len(articles(cache[t])) = NumArticles

\* a request that this step puts in flight for a live fetch
IssuedNow(r) == r.live /\ CopiesIn(r, net') > CopiesIn(r, net)

NextPageRequestsInFlight(t) ==
    LET S == {r \in BagToSet(net) : r.key = t /\ r.direction = "forward"}
    IN  BagCardinality([r \in S |-> net[r]])

\* C7: at most one next-page fetch is in flight per paged sequence.
C7_OneNextPageFetch ==
    \A t \in Tags : NextPageRequestsInFlight(t) <= 1

\* C7 witness: the list can reach its end again while a next-page fetch of
\* the sequence shown is outstanding.
C7_Witness ==
    /\ NextPageRequestsInFlight(tag) = 1
    /\ ListShown(cache[tag])
    /\ hasNextPage(cache[tag])

\* the page the next request of a sequence would ask for
NextPageToRequest(q) ==
    IF q.pages = <<>> THEN initialPageParam ELSE getNextPageParam(Last(q.pages))

\* C8: when a page fetch fails for good, the error is given to the consumer
\* and the cursor stays: the pages held are the same and the next page that
\* would be requested is the page that failed.
C8_FailureKeepsCursor ==
    [][\A r \in BagToSet(net) :
          (r.live /\ cache[r.key].failureCount = retry
                  /\ cache'[r.key].failureCount = retry + 1) =>
              /\ cache'[r.key].error # "null"
              /\ cache'[r.key].status = "error"
              /\ cache'[r.key].pages = cache[r.key].pages
              /\ NextPageToRequest(cache'[r.key]) = r.query.pagination.page]_vars

\* C8 witness: a next-page fetch has failed in a sequence that holds pages.
C8_Witness ==
    \E t \in Tags :
        /\ cache[t].status = "error"
        /\ cache[t].pages # <<>>
        /\ cache[t].failureCount = retry + 1

\* the first request issued under a filter after the filter changed to it
\* while a sequence was in progress
FirstRequestAfterChange(r) ==
    /\ IssuedNow(r)
    /\ r.key = tag'
    /\ \/ tag' # tag /\ InProgress(cache[tag])
       \/ tag' = tag /\ restartPending

C10_PagesMatchKeyFilter ==
    \A t \in Tags :
        \A i \in DOMAIN cache[t].pages :
            cache[t].pages[i] = StrapiFind(getArticles(PageOf(cache[t].pages[i]), t))

\* C10 witness: a page arrived for a filter that was no longer shown.
C10_Witness ==
    /\ lateArrival
    /\ \E t \in Tags \ {tag} : cache[t].pages # <<>>

----------------------------------------------------------------------------
\* Properties of the block renderer (checked under SpecRender)

\* step 6.4 of the tutorial: the default arm shows "Block not implemented: <tag>"
Placeholder(component) ==
    [type |-> "View", text |-> <<"Block not implemented: ", component>>]

\* C2: one unit per block, in input order; the i-th unit is made from the
\* i-th block; no block, no unit.
C2_OneUnitPerBlockInOrder ==
    rendered.view = "blocks" =>
        /\ Len(rendered.units) = Len(blocks)
        /\ \A i \in DOMAIN blocks :
               /\ rendered.units[i].key = <<blocks[i].__component, blocks[i].id, i - 1>>
               /\ blocks[i].__component \in RegisteredComponents =>
                      rendered.units[i].child.props = blocks[i]

\* C2 witness: two different blocks were rendered.
C2_Witness ==
    /\ rendered.view = "blocks"
    /\ Len(blocks) = 2
    /\ blocks[1] # blocks[2]
    /\ Len(rendered.units) = 2

\* C3: a block whose tag has no case is rendered as a visible placeholder
\* that carries the raw tag.
C3_PlaceholderCarriesTag ==
    rendered.view = "blocks" =>
        \A i \in DOMAIN blocks :
            blocks[i].__component \notin RegisteredComponents =>
                /\ i \in DOMAIN rendered.units
                /\ rendered.units[i].child = Placeholder(blocks[i].__component)

\* C4: a block with an unrecognized tag does not abort the render: the page is
\* rendered, with one unit per block and every recognized block's component
\* at its position.
C4_UnknownTagDoesNotAbort ==
    (\E i \in DOMAIN blocks : blocks[i].__component \notin RegisteredComponents) =>
        /\ rendered.view = "blocks"
        /\ Len(rendered.units) = Len(blocks)
        /\ \A i \in DOMAIN blocks :
               blocks[i].__component \in RegisteredComponents =>
                   /\ rendered.units[i].child # Null
                   /\ rendered.units[i].child.props = blocks[i]

\* C4 witness: a recognized block was rendered after an unrecognized one.
C4_Witness ==
    /\ rendered.view = "blocks"
    /\ Len(blocks) = 2
    /\ blocks[1].__component \notin RegisteredComponents
    /\ blocks[2].__component \in RegisteredComponents
    /\ rendered.units[2].child.props = blocks[2]

\* C22: blocks that share an id are tolerated: for every block sequence,
\* also one in which two blocks have the same id and the same tag, there is
\* one unit per block holding what renderBlock makes of that block, and the
\* render keys of all positions are pairwise distinct.
C22_DuplicateIdsDistinctKeys ==
    rendered.view = "blocks" =>
        /\ Len(rendered.units) = Len(blocks)
        /\ \A i \in DOMAIN blocks : rendered.units[i].child = renderBlock(blocks[i])
        /\ \A i, j \in DOMAIN rendered.units :
               i # j => rendered.units[i].key # rendered.units[j].key

\* two blocks with the same tag and the same id were rendered
C22_Witness ==
    /\ rendered.view = "blocks"
    /\ Len(blocks) = 2
    /\ blocks[1] = blocks[2]
    /\ blocks[1].__component \in RegisteredComponents
    /\ rendered.units[1].child = rendered.units[2].child
    /\ rendered.units[1].child # Null

\* C16: with 25 articles and a page size of 10 every page reports pageCount
\* 3, the pages hold 10, 10 and 5 articles, the three pages together hold 25,
\* hasNextPage is false once page 3 is held, and no request asks for a page
\* beyond the third.
C16_TwentyFiveItemsThreePages ==
    LET q == cache[Undefined]
    IN  Len(Collection(Undefined)) = 25 /\ PAGE_SIZE = 10 =>
            /\ Len(q.pages) <= 3
            /\ \A i \in 1..Len(q.pages) :
                   /\ PageOf(q.pages[i]) = i
                   /\ PageCountOf(q.pages[i]) = 3
                   /\ Len(q.pages[i].data) = IF i < 3 THEN 10 ELSE 5
            /\ hasNextPage(q) <=> Len(q.pages) \in {1, 2}
            /\ Len(q.pages) = 3 => Len(articles(q)) = 25
            /\ \A r \in BagToSet(net) :
                   r.key = Undefined => r.query.pagination.page \in 1..3

\* all 25 articles are held in three pages and nothing is in flight
C16_Witness ==
    /\ Len(cache[Undefined].pages) = 3
    /\ Len(articles(cache[Undefined])) = 25
    /\ ~hasNextPage(cache[Undefined])
    /\ cache[Undefined].fetchStatus = "idle"
    /\ net = EmptyBag

\* the number of items in the pages before page i
ItemsBefore(pages, i) == Len(flatMapData(SubSeq(pages, 1, i - 1)))

\* C17: the aggregated list is the pages laid end to end in the order they
\* were fetched: item j of page i stands at position (items of the pages
\* before i) + j, so items of an earlier page precede those of a later page
\* and the order within a page is kept.
C17_FlattenedInFetchOrder ==
    \A t \in Tags :
        LET pages == cache[t].pages
            list == articles(cache[t])
        IN  /\ \A i \in 1..Len(pages) : PageOf(pages[i]) = i
            /\ Len(list) = ItemsBefore(pages, Len(pages) + 1)
            /\ \A i \in 1..Len(pages) : \A j \in 1..Len(pages[i].data) :
                   list[ItemsBefore(pages, i) + j] = pages[i].data[j]

\* two pages of the filtered list are held: 10 and then 2 articles
C17_Witness ==
    /\ Len(cache["react"].pages) = 2
    /\ Len(articles(cache["react"])) = 12
    /\ articles(cache["react"])[11] = cache["react"].pages[2].data[1]

\* a next-page fetch of the shown list is outstanding
isFetchingForward ==
    \E r \in BagToSet(net) : r.key = tag /\ r.live /\ r.direction = "forward"

\* C24: pull-to-refresh and next-page fetching never overlap on the shown
\* list: no next-page request is issued while a refresh refetch is
\* outstanding, and no refresh request is issued while a next-page fetch is
\* outstanding.
C24_RefreshAndNextPageExclusive ==
    [][\A r \in BagToSet(net') :
          IssuedNow(r) /\ r.key = tag =>
              /\ r.direction = "forward" => ~isRefetching
              /\ r.direction = "refetch" => ~isFetchingForward]_vars

\* C25: a failed next-page fetch leaves the pages already fetched as they
\* were: issuing the fetch, each failed attempt and the final failure change
\* neither the pages nor the aggregated items, and while the fetch is
\* outstanding the pages are still those it was issued after (it asks for the
\* page after the last one held).
C25_FailedNextPageKeepsPages ==
    [][/\ \A r \in BagToSet(net) :
              r.direction = "forward" /\ Fail(r) =>
                  /\ cache'[r.key].pages = cache[r.key].pages
                  /\ articles(cache'[r.key]) = articles(cache[r.key])
                  /\ r.live /\ r.attempt = retry =>
                         /\ cache'[r.key].status = "error"
                         /\ cache'[r.key].fetchStatus = "idle"
       /\ \A r \in BagToSet(net') :
              r.direction = "forward" /\ IssuedNow(r) =>
                  cache'[r.key].pages = cache[r.key].pages
       /\ \A r \in BagToSet(net') :
              r.direction = "forward" /\ r.live =>
                  r.query.pagination.page = Len(cache'[r.key].pages) + 1]_vars

\* the fetch of the third page failed for good: two pages are held, with the
\* error
C25_Witness ==
    /\ cache[tag].status = "error"
    /\ cache[tag].failureCount = retry + 1
    /\ Len(cache[tag].pages) = 2
    /\ Len(articles(cache[tag])) = 2 * PAGE_SIZE
    /\ ~refreshing
    /\ net = EmptyBag

\* C27: the refreshing flag is true from the start of a pull-to-refresh until
\* its refetch settles and false afterwards: it is set together with the start
\* of the refetch, it is true whenever the refetch is outstanding, it is
\* cleared only when the refetch has settled, and once the refetch has settled
\* (with pages, with an error, or cancelled) it does not stay true.
C27_RefreshingUntilSettled ==
    /\ [](isRefetching => refreshing)
    /\ [][/\ ~refreshing /\ refreshing' => ~isRefetching /\ isRefetching'
          /\ refreshing /\ ~refreshing' => ~isRefetching /\ ~isRefetching']_vars
    /\ (refreshing /\ ~isRefetching) ~> ~refreshing

\* the refetch of a refresh failed for good and setRefreshing(false) has not
\* run yet
C27_Witness ==
    /\ refreshing
    /\ ~isRefetching
    /\ cache[tag].status = "error"
    /\ cache[tag].failureCount = retry + 1
    /\ cache[tag].pages # <<>>

----------------------------------------------------------------------------
\* Properties of the useQuery hooks and their screens (checked under SpecApp)

\* the errors fetchAPI throws for a rejected fetch or a non-success status
FetchErrors ==
    {fetchAPI(result, NoData).error : result \in {n \in NetworkResults : ~n.ok}}

NoSuchSlugs == {s \in Slugs : StrapiFindBySlug(s).data = <<>>}

\* the lookup found no article: a successful, empty result
NotFound(q) == q.status = "success" /\ q.data = [data |-> <<>>]

\* the lookup failed: every attempt ended in an error of fetchAPI
LookupFailed(q) == q.status = "error" /\ q.error \in FetchErrors

\* C11: a slug lookup for a slug no article has completes successfully with
\* an empty result: once the query holds data it is in the success state with
\* an empty list and no error, and it is in the error state only when the
\* fetch itself failed, never because nothing matched.
C11_NotFoundIsSuccess ==
    \A s \in NoSuchSlugs :
        LET q == queries[ArticleKey(s)]
        IN  /\ q.data # NoData => NotFound(q) /\ q.error = NoError
            /\ q.status = "error" => LookupFailed(q) /\ q.data = NoData

C11_Witness ==
    /\ slug = "no-such-post"
    /\ NotFound(DetailQuery)
    /\ DetailQuery.fetchStatus = "idle"

C26_EmptySlugNeverFetched ==
    /\ \A r \in BagToSet(qnet) : r.key # ArticleKey("")
    /\ queries[ArticleKey("")] = EmptySimpleQuery
    /\ queries[ArticleKey("")].status # "error"
    /\ queries[ArticleKey("")].fetchStatus = "idle"

\* ArticleDetailScreen is open without a slug and shows "Article not found"
C26_Witness ==
    /\ slug = ""
    /\ ~enabled(slug)
    /\ ArticleDetailScreen(DetailQuery) =
           [view |-> "error", title |-> "Error", message |-> <<"Article not found">>]
    /\ qnet = EmptyBag

----------------------------------------------------------------------------
\* Properties of shared cache entries (checked under SpecShare)

\* the number of HTTP requests in flight for key t
RequestsInFlight(t) ==
    BagCardinality([r \in {x \in BagToSet(net) : x.key = t} |-> CopiesIn(r, net)])

\* C13: while a fetch of a key is outstanding and several consumers observe
\* the key, exactly one request is in flight for it (no consumer started a
\* second one), and the consumers render the same view, read from the one
\* entry of the key.
C13_OneFetchOneEntry ==
    \A t \in SharedTags :
        Cardinality(Observers(t)) >= 2 /\ cache[t].fetchStatus = "fetching" =>
            /\ RequestsInFlight(t) = 1
            /\ \A c1, c2 \in Observers(t) : View(c1) = View(c2)

C13_Witness ==
    /\ Observers("react") = Consumers
    /\ cache["react"].fetchStatus = "fetching"
    /\ cache["react"].pages = <<>>
    /\ RequestsInFlight("react") = 1

----------------------------------------------------------------------------
\* Properties of pull to refresh (checked under SpecRefresh)

\* the live request of the refetch of the shown list
LiveRefetches ==
    {r \in BagToSet(net) : r.key = tag /\ r.live /\ r.direction = "refetch"}

\* C15 as stated: a manual refresh discards the pages aggregated so far.
C15_RefreshDiscardsPages ==
    [][OnRefresh => cache'[tag].pages = <<>>]_vars

\* C15 amended: a manual refresh starts one fetch at page 1 that holds no page
\* yet and keeps the pages aggregated so far; the pages held change only by a
\* next page being appended or by a finished refresh replacing all of them
\* with the pages it fetched itself, as many as were held, from page 1 on in
\* order; a refresh that fails or is cancelled leaves the pages as they were.
C15_RefreshReplacesPages ==
    [][/\ OnRefresh =>
              /\ cache'[tag].pages = cache[tag].pages
              /\ LiveRefetches' = {RefetchRequest(tag, initialPageParam, 0, <<>>)}
              /\ \A r \in BagToSet(net') : r.key = tag /\ r.live => r \in LiveRefetches'
       /\ cache'[tag].pages # cache[tag].pages =>
              \/ /\ ~isRefetching
                 /\ Len(cache'[tag].pages) = Len(cache[tag].pages) + 1
                 /\ SubSeq(cache'[tag].pages, 1, Len(cache[tag].pages)) = cache[tag].pages
              \/ \E r \in LiveRefetches :
                     /\ cache'[tag].pages = Append(r.fetched, StrapiFind(r.query))
                     /\ Len(cache'[tag].pages) = Len(cache[tag].pages)
                     /\ \A i \in 1..Len(cache'[tag].pages) :
                            PageOf(cache'[tag].pages[i]) = i
                     /\ ~isRefetching']_vars

\* a refresh of two held pages has fetched page 1 again and asks for page 2;
\* the list still shows the pages held before
C15_Witness ==
    /\ refreshing
    /\ isRefetching
    /\ Len(cache[tag].pages) = 2
    /\ \E r \in LiveRefetches : Len(r.fetched) = 1 /\ r.query.pagination.page = 2

\* the keys of the useQuery hooks that have a request in flight
KeysInFlight == {r.key : r \in BagToSet(qnet)}

\* C18: a failing fetch is repeated at most 3 times, 4 attempts in all,
\* before its error is stored, and the limit is the same for the landing
\* page, the article list, the paged list and the slug lookup: no request is
\* a fifth attempt, a query that is still fetching has failed at most 3
\* times, and a query in the error state has failed at most 4 times.
C18_AtMostThreeRetries ==
    /\ retry = 3
    /\ \A r \in BagToSet(qnet) : r.attempt \in 0..3
    /\ \A r \in BagToSet(net) : r.attempt \in 0..3
    /\ \A k \in QueryKeys :
           /\ queries[k].fetchStatus = "fetching" => queries[k].failureCount \in 0..3
           /\ queries[k].status = "error" => queries[k].failureCount \in 1..4
    /\ \A t \in Tags :
           /\ cache[t].fetchStatus = "fetching" => cache[t].failureCount \in 0..3
           /\ cache[t].status = "error" => cache[t].failureCount \in 1..4

\* every kind of query has spent its four attempts and holds its error
C18_Witness ==
    /\ \A k \in {LandingKey, ArticlesKey, ArticleKey("latest-post")} :
           queries[k].status = "error" /\ queries[k].failureCount = 4
    /\ cache[Undefined].status = "error"
    /\ cache[Undefined].failureCount = 4
    /\ Len(cache[Undefined].pages) = 1

\* C19: for a non-success HTTP status fetchAPI ends in an error and never in
\* a decoded body; when such a response settles a request of a useQuery hook
\* no data is stored, and when it was the last attempt the hook's error is
\* the very error fetchAPI threw, the loader having neither caught nor
\* replaced it.
C19_HttpErrorReachesHook ==
    [][\A result \in {n \in NetworkResults : ~n.rejected /\ ~n.ok} :
          LET thrown == Error(<<"API error: ", result.status, " ", result.statusText>>)
          IN  /\ \A k \in QueryKeys : queryFn(k, result) = Throw(thrown)
              /\ \A r \in BagToSet(qnet) :
                     Settle(r, result) =>
                         /\ queries'[r.key].data = queries[r.key].data
                         /\ queries'[r.key].status # "success"
                         /\ r.attempt = retry =>
                                /\ queries'[r.key].status = "error"
                                /\ queries'[r.key].error = thrown]_vars

\* the slug lookup of the open article ended with the error of a 500 response
C19_Witness ==
    /\ slug = "latest-post"
    /\ DetailQuery.status = "error"
    /\ DetailQuery.data = NoData
    /\ DetailQuery.error = Error(<<"API error: ", 500, " ", "Internal Server Error">>)

\* the three screens, as rendered in this state
HomeView == HomeScreenOf(queries[LandingKey])
BlogView == BlogScreenView(cache[tag], refreshing)
DetailView == ArticleDetailScreen(DetailQuery)

\* C20: no failed fetch leaves a screen on its loading view: a query whose
\* fetch failed for good shows the error view on the landing page, the blog
\* list and the article detail, and a screen shows its loading view only
\* while a request of its query is in flight.
C20_NeverStuckLoading ==
    /\ queries[LandingKey].status = "error" => HomeView.view = "error"
    /\ cache[tag].status = "error" => BlogView.view = "error"
    /\ slug # NoRoute /\ DetailQuery.status = "error" => DetailView.view = "error"
    /\ HomeView.view = "loading" => LandingKey \in KeysInFlight
    /\ BlogView.view = "loading" => \E r \in BagToSet(net) : r.key = tag /\ r.live
    /\ slug # NoRoute /\ DetailView.view = "loading" => ArticleKey(slug) \in KeysInFlight

\* all three screens show their error view and nothing is in flight
C20_Witness ==
    /\ slug # NoRoute
    /\ HomeView.view = "error"
    /\ BlogView.view = "error"
    /\ DetailView.view = "error"
    /\ DetailQuery.status = "error"
    /\ cache[tag].pages = <<>>
    /\ qnet = EmptyBag
    /\ net = EmptyBag

----------------------------------------------------------------------------
\* Properties of getStrapiMedia (checked under SpecMedia)

Letters == {"h", "t", "p", "f"}

\* an absolute URL starts with a scheme: letters followed by ":"
IsAbsoluteUrl(u) ==
    /\ u # nullValue
    /\ \E i \in 2..Len(u) :
           /\ u[i] = ":"
           /\ \A j \in 1..(i - 1) : u[j] \in Letters

IsMissingUrl(u) == u = nullValue \/ u = <<>>

IsRelativeUrl(u) == ~IsMissingUrl(u) /\ ~IsAbsoluteUrl(u)

\* C21: every relative URL is returned prefixed with the configured base URL,
\* every absolute URL is returned unchanged, and a missing (null or empty) URL
\* yields no URL.
C21_MediaUrlResolved ==
    media # NotCalled =>
        /\ IsMissingUrl(url) => media = nullValue
        /\ IsAbsoluteUrl(url) => media = url
        /\ IsRelativeUrl(url) => media = STRAPI_URL \o url

----------------------------------------------------------------------------
\* Properties of responses without meta.pagination (checked under SpecBare)

LastIsBare(q) == q.pages # <<>> /\ Last(q.pages).meta.pagination = NoPagination

\* C23: when the last page held carries no meta.pagination it counts as page
\* 1 of 1: getNextPageParam gives undefined, hasNextPage is false, and no
\* request is in flight for the sequence, whatever the number of items in the
\* page.
C23_NoPaginationNoNextPage ==
    \A t \in Tags :
        LastIsBare(cache[t]) =>
            /\ getNextPageParam(Last(cache[t].pages)) = undefinedParam
            /\ ~hasNextPage(cache[t])
            /\ ~onEndReachedGuard(cache[t])
            /\ cache[t].fetchStatus = "idle"
            /\ \A r \in BagToSet(net) : r.key # t

\* a second page arrived without pagination and full of items, with articles
\* left on the backend, and the list is shown
C23_Witness ==
    /\ tag = Undefined
    /\ Len(cache[tag].pages) = 2
    /\ LastIsBare(cache[tag])
    /\ Len(Last(cache[tag].pages).data) = PAGE_SIZE
    /\ Len(articles(cache[tag])) < Len(Collection(tag))
    /\ ListShown(cache[tag])

----------------------------------------------------------------------------
\* Properties of the block components (checked under SpecBlocks)

OpenItems == {index \in FaqIndexes : IsOpen(index)}

\* C28: at most one FAQ item is open at any time: openIndex is null or one
\* item index; toggling the open item closes it, and toggling any other item
\* makes that item the only open one.
C28_AtMostOneFaqOpen ==
    /\ [](/\ openIndex = nullIndex \/ \E index \in FaqIndexes : openIndex = Index(index)
          /\ Cardinality(OpenItems) <= 1)
    /\ [][\A index \in FaqIndexes :
              ToggleFAQ(index) =>
                  IF IsOpen(index)
                  THEN openIndex' = nullIndex /\ OpenItems' = {}
                  ELSE OpenItems' = {index}]_vars

\* the last FAQ item was toggled and is the only open one
C28_Witness ==
    /\ OpenItems = {FaqCount - 1}
    /\ opened = <<>>

\* C29: pressing a block link opens its URL only when the link is marked
\* external and has an href; pressing a link that is not external opens
\* nothing and changes no state.
C29_OnlyExternalWithHrefOpens ==
    [][\A link \in Links :
          PressHeroLink(link) \/ PressContentLink(link) =>
              /\ opened' # opened => link.isExternal /\ link.href # ""
              /\ ~link.isExternal => UNCHANGED vars
              /\ link.isExternal /\ link.href # "" => opened' = Append(opened, link.href)]_vars

----------------------------------------------------------------------------
\* Properties of getArticles (checked under SpecLoader)

\* the caller gave a non-empty tag
TagGiven == params # NoParams /\ params.tag \notin {Undefined, ""}

\* C30: getArticles sends a tag filter only when a non-empty tag is given
\* and otherwise sends no filter; it requests page 1 and page size 10 when the
\* caller gives no page or page size, and always sorts by creation time
\* descending.
C30_GetArticlesOptions ==
    findOptions # NoCall =>
        /\ findOptions.filters # Undefined <=> TagGiven
        /\ TagGiven => findOptions.filters = params.tag
        /\ params = NoParams \/ params.page = undefinedParam
               => findOptions.pagination.page = 1
        /\ params # NoParams /\ params.page # undefinedParam
               => findOptions.pagination.page = params.page
        /\ params = NoParams \/ params.pageSize = undefinedParam
               => findOptions.pagination.pageSize = 10
        /\ params # NoParams /\ params.pageSize # undefinedParam
               => findOptions.pagination.pageSize = params.pageSize
        /\ findOptions.sort = "createdAt:desc"

\* getArticles was called with an empty tag and neither page nor page size
C30_Witness ==
    /\ findOptions # NoCall
    /\ params # NoParams
    /\ params.tag = ""
    /\ params.page = undefinedParam
    /\ params.pageSize = undefinedParam
    /\ findOptions.filters = Undefined

====
